---- MODULE Spec2Model ----
(***************************************************************************)
(* A model of package cascadia (selector.go): the Selector predicates, the *)
(* pre-order walk MatchAll, and Compile.  Strings are sequences of byte    *)
(* values, nodes are integers indexing the variable tree, and a Selector   *)
(* (a Go closure) is the record of the constructor call that built it; the *)
(* operator named after a constructor is that constructor's closure        *)
(* applied to a node.                                                      *)
(***************************************************************************)
EXTENDS Integers, Sequences, FiniteSets, TLC

VARIABLES
    tree,     \* the html.Node graph: node -> [Parent, Child, Type, Data, Attr]
    s,        \* the Selector under test
    node,     \* the *html.Node a predicate is applied to / the root of a walk
    ret,      \* what the predicate returned (or that it panicked)
    stack,    \* MatchAll's call stack: frames [n, i, result]
    result,   \* the slice returned by the outermost MatchAll
    evals,    \* how many times s was called on each node during the walk
    sel,      \* Compile's argument, the selector text
    p,        \* the parser cursor: [i |-> offset, compiled |-> Selector, err |-> error]
    out,      \* Compile's return values: [sel |-> Selector, err |-> error]
    pc        \* the position of the running operation

vars == <<tree, s, node, ret, stack, result, evals, sel, p, out, pc>>

---------------------------------------------------------------------------
(* Bounds of the model. *)

\* the largest number of children of the parent in the nth-child inputs
MaxChildren == 4
\* a and b of a formula range over -MaxCoef .. MaxCoef
MaxCoef == 3
\* the longest attribute value in the value-matching inputs
MaxValLen == 3
\* the longest selector value in the value-matching inputs
MaxSelLen == 2
\* the longest attribute list in the key-matching inputs
MaxAttrs == 2
\* the largest tree MatchAll walks
MaxNodes == 4
\* the longest selector text given to Compile
MaxText == 4

---------------------------------------------------------------------------
(* Go values. *)

\* a nil *html.Node
NilNode == -1

\* a nil Selector, a nil error
Nil == [kind |-> "nil"]

\* the value of an expression that evaluated normally
Val(v) == [panic |-> FALSE, v |-> v]

\* a run-time panic while evaluating a boolean expression
Panic == [panic |-> TRUE, v |-> FALSE]

\* a run-time panic while evaluating an integer or byte expression
PanicInt == [panic |-> TRUE, v |-> 0]

\* a run-time panic while evaluating a string expression
PanicStr == [panic |-> TRUE, v |-> <<>>]

Abs(x) == IF x < 0 THEN -x ELSE x

\* x / y on Go ints: truncated toward zero, panics when y = 0
GoQuo(x, y) ==
    IF y = 0 THEN PanicInt
    ELSE LET q == Abs(x) \div Abs(y)
         IN  Val(IF (x < 0) # (y < 0) THEN -q ELSE q)

\* x % y on Go ints: the sign of the dividend, panics when y = 0
GoRem(x, y) ==
    IF y = 0 THEN PanicInt
    ELSE Val(x - y * GoQuo(x, y).v)

\* s[i] on a Go string: panics when i is out of range (i is 0-based)
ByteAt(str, i) ==
    IF i < 0 \/ i >= Len(str) THEN PanicInt ELSE Val(str[i + 1])

\* s[:i] on a Go string
SliceTo(str, i) ==
    IF i < 0 \/ i > Len(str) THEN PanicStr ELSE Val(SubSeq(str, 1, i))

\* s[i:] on a Go string
SliceFrom(str, i) ==
    IF i < 0 \/ i > Len(str) THEN PanicStr ELSE Val(SubSeq(str, i + 1, Len(str)))

\* strings.HasPrefix
HasPrefix(str, prefix) ==
    Len(str) >= Len(prefix) /\ SubSeq(str, 1, Len(prefix)) = prefix

\* strings.HasSuffix
HasSuffix(str, suffix) ==
    Len(str) >= Len(suffix)
    /\ SubSeq(str, Len(str) - Len(suffix) + 1, Len(str)) = suffix

\* strings.Contains
Contains(str, substr) ==
    \E k \in 0..(Len(str) - Len(substr)) :
        SubSeq(str, k + 1, k + Len(substr)) = substr

\* the bytes of " \t\r\n\f"
Whitespace == {32, 9, 13, 10, 12}

\* strings.IndexAny: the 0-based index of the first byte of str in chars, or -1
IndexAny(str, chars) ==
    LET hits == {k \in 1..Len(str) : str[k] \in chars}
    IN  IF hits = {} THEN -1
        ELSE (CHOOSE k \in hits : \A m \in hits : k <= m) - 1

\* the byte '-'
Hyphen == 45

\* html.ElementNode and html.TextNode
ElementNode == "ElementNode"
TextNode == "TextNode"

---------------------------------------------------------------------------
(* toLowerASCII *)

toLowerASCII_identity(str) == str

\* every byte in 'A'..'Z' moved up by 'a' - 'A'
toLowerASCII(str) ==
    [k \in 1..Len(str) |->
        IF 65 <= str[k] /\ str[k] <= 90 THEN str[k] + (97 - 65) ELSE str[k]]

---------------------------------------------------------------------------
(* The attribute predicates.  FirstKey is the loop                         *)
(*     for _, a := range n.Attr { if a.Key == key { return ... } }         *)
(* up to the attribute it returns on: its index, or 0 when the loop ends.  *)

FirstKey(attrs, key) ==
    LET hits == {k \in 1..Len(attrs) : attrs[k].Key = key}
    IN  IF hits = {} THEN 0 ELSE CHOOSE k \in hits : \A m \in hits : k <= m

typeSelector(tag, n) ==
    LET t == toLowerASCII(tag)
    IN  Val(tree[n].Type = ElementNode /\ tree[n].Data = t)

attributeExistsSelector(key, n) ==
    LET k == toLowerASCII(key)
    IN  Val(FirstKey(tree[n].Attr, k) # 0)

attributeEqualsSelector(key, val, n) ==
    LET k == toLowerASCII(key)
        j == FirstKey(tree[n].Attr, k)
    IN  IF j = 0 THEN Val(FALSE) ELSE Val(tree[n].Attr[j].Val = val)

\* the loop `for s != ""` over one attribute value: returned says whether the
\* loop executed a return statement, v what it returned
RECURSIVE includesScan(_, _)
includesScan(str, val) ==
    IF str = <<>> THEN [returned |-> FALSE, v |-> FALSE, panic |-> FALSE]
    ELSE LET i == IndexAny(str, Whitespace)
         IN  IF i = -1
             THEN [returned |-> TRUE, v |-> (str = val), panic |-> FALSE]
             ELSE IF SliceTo(str, i).panic
                  THEN [returned |-> FALSE, v |-> FALSE, panic |-> TRUE]
                  ELSE IF SliceTo(str, i).v = val
                       THEN [returned |-> TRUE, v |-> TRUE, panic |-> FALSE]
                       ELSE IF SliceFrom(str, i + 1).panic
                            THEN [returned |-> FALSE, v |-> FALSE, panic |-> TRUE]
                            ELSE includesScan(SliceFrom(str, i + 1).v, val)

\* the loop over n.Attr from attribute j on: an attribute whose scan ends
\* without returning is followed by the next attribute
RECURSIVE includesRange(_, _, _, _)
includesRange(attrs, j, key, val) ==
    IF j > Len(attrs) THEN Val(FALSE)
    ELSE IF attrs[j].Key = key
         THEN LET r == includesScan(attrs[j].Val, val)
              IN  IF r.panic THEN Panic
                  ELSE IF r.returned THEN Val(r.v)
                       ELSE includesRange(attrs, j + 1, key, val)
         ELSE includesRange(attrs, j + 1, key, val)

attributeIncludesSelector(key, val, n) ==
    LET k == toLowerASCII(key)
    IN  includesRange(tree[n].Attr, 1, k, val)

attributeDashmatchSelector_prefix(key, val, n) ==
    LET k == toLowerASCII(key)
        j == FirstKey(tree[n].Attr, k)
    IN  IF j = 0 THEN Val(FALSE) ELSE Val(HasPrefix(tree[n].Attr[j].Val, val))

attributeDashmatchSelector(key, val, n) ==
    LET k == toLowerASCII(key)
        j == FirstKey(tree[n].Attr, k)
    IN  IF j = 0 THEN Val(FALSE)
        ELSE LET aVal == tree[n].Attr[j].Val
                 pre == SliceTo(aVal, Len(val))
                 nxt == ByteAt(aVal, Len(val))
             IN  IF aVal = val THEN Val(TRUE)
                 ELSE IF Len(aVal) <= Len(val) THEN Val(FALSE)
                 ELSE IF pre.panic THEN Panic
                 ELSE IF pre.v # val THEN Val(FALSE)
                 ELSE IF nxt.panic THEN Panic
                 ELSE Val(nxt.v = Hyphen)

attributePrefixSelector(key, val, n) ==
    LET k == toLowerASCII(key)
        j == FirstKey(tree[n].Attr, k)
    IN  IF j = 0 THEN Val(FALSE) ELSE Val(HasPrefix(tree[n].Attr[j].Val, val))

attributeSuffixSelector(key, val, n) ==
    LET k == toLowerASCII(key)
        j == FirstKey(tree[n].Attr, k)
    IN  IF j = 0 THEN Val(FALSE) ELSE Val(HasSuffix(tree[n].Attr[j].Val, val))

attributeSubstringSelector_absentEmpty(key, val, n) ==
    LET k == toLowerASCII(key)
        j == FirstKey(tree[n].Attr, k)
    IN  IF j = 0 THEN Val(Contains(<<>>, val)) ELSE Val(Contains(tree[n].Attr[j].Val, val))

attributeSubstringSelector(key, val, n) ==
    LET k == toLowerASCII(key)
        j == FirstKey(tree[n].Attr, k)
    IN  IF j = 0 THEN Val(FALSE) ELSE Val(Contains(tree[n].Attr[j].Val, val))

---------------------------------------------------------------------------
(* nthChildSelector *)

\* the loop `for i = 0; i < len(c); i++ { if c[i] == n { break } }`: the value
\* of i after it, len(c) when n is not in c
ChildIndex(c, n) ==
    LET hits == {k \in 1..Len(c) : c[k] = n}
    IN  IF hits = {} THEN Len(c)
        ELSE (CHOOSE k \in hits : \A m \in hits : k <= m) - 1

nthChildSelector_front(a, b, last, n) ==
    LET parent == tree[n].Parent
    IN  IF parent = NilNode THEN Val(FALSE)
        ELSE LET c == tree[parent].Child
                 i0 == ChildIndex(c, n)
                 i1 == i0 + 1
                 i2 == i1 - b
                 r == GoRem(i2, a)
                 q == GoQuo(i2, a)
             IN  IF i0 = Len(c) THEN Val(FALSE)
                 ELSE IF a = 0 THEN Val(i2 = 0)
                 ELSE IF r.panic THEN Panic
                 ELSE IF r.v # 0 THEN Val(FALSE)
                 ELSE IF q.panic THEN Panic
                 ELSE Val(q.v >= 0)

nthChildSelector_anySign(a, b, last, n) ==
    LET parent == tree[n].Parent
    IN  IF parent = NilNode THEN Val(FALSE)
        ELSE LET c == tree[parent].Child
                 i0 == ChildIndex(c, n)
                 i1 == IF last THEN Len(c) - i0 ELSE i0 + 1
                 i2 == i1 - b
             IN  IF i0 = Len(c) THEN Val(FALSE)
                 ELSE IF a = 0 THEN Val(i2 = 0)
                 ELSE Val(GoRem(i2, a).v = 0)

nthChildSelector_nozero(a, b, last, n) ==
    LET parent == tree[n].Parent
    IN  IF parent = NilNode THEN Val(FALSE)
        ELSE LET c == tree[parent].Child
                 i0 == ChildIndex(c, n)
                 i1 == IF last THEN Len(c) - i0 ELSE i0 + 1
                 i2 == i1 - b
                 r == GoRem(i2, a)
                 q == GoQuo(i2, a)
             IN  IF i0 = Len(c) THEN Val(FALSE)
                 ELSE IF r.panic THEN Panic
                 ELSE IF r.v # 0 THEN Val(FALSE)
                 ELSE IF q.panic THEN Panic
                 ELSE Val(q.v >= 0)

nthChildSelector(a, b, last, n) ==
    LET parent == tree[n].Parent
    IN  IF parent = NilNode THEN Val(FALSE)
        ELSE LET c == tree[parent].Child
                 i0 == ChildIndex(c, n)
                 i1 == IF last THEN Len(c) - i0 ELSE i0 + 1
                 i2 == i1 - b
                 r == GoRem(i2, a)
                 q == GoQuo(i2, a)
             IN  IF i0 = Len(c) THEN Val(FALSE)
                 ELSE IF a = 0 THEN Val(i2 = 0)
                 ELSE IF r.panic THEN Panic
                 ELSE IF r.v # 0 THEN Val(FALSE)
                 ELSE IF q.panic THEN Panic
                 ELSE Val(q.v >= 0)

---------------------------------------------------------------------------
(* Calling a Selector: the closure the constructor call sel built, applied *)
(* to n.  A "func" selector is an arbitrary Go predicate, given by the set *)
(* of nodes it is true on.                                                 *)

RECURSIVE Call(_, _)

\* a(n) && b(n): b is called only when a returned true
intersectionSelector(a, b, n) ==
    LET ra == Call(a, n)
    IN  IF ra.panic THEN Panic
        ELSE IF ~ra.v THEN Val(FALSE)
        ELSE Call(b, n)

negatedSelector(a, n) ==
    LET ra == Call(a, n)
    IN  IF ra.panic THEN Panic ELSE Val(~ra.v)

Call(f, n) ==
    CASE f.kind = "typeSelector" -> typeSelector(f.tag, n)
      [] f.kind = "attributeExistsSelector" -> attributeExistsSelector(f.key, n)
      [] f.kind = "attributeEqualsSelector" -> attributeEqualsSelector(f.key, f.val, n)
      [] f.kind = "attributeIncludesSelector" -> attributeIncludesSelector(f.key, f.val, n)
      [] f.kind = "attributeDashmatchSelector" -> attributeDashmatchSelector(f.key, f.val, n)
      [] f.kind = "attributePrefixSelector" -> attributePrefixSelector(f.key, f.val, n)
      [] f.kind = "attributeSuffixSelector" -> attributeSuffixSelector(f.key, f.val, n)
      [] f.kind = "attributeSubstringSelector" -> attributeSubstringSelector(f.key, f.val, n)
      [] f.kind = "nthChildSelector" -> nthChildSelector(f.a, f.b, f.last, n)
      [] f.kind = "intersectionSelector" -> intersectionSelector(f.a, f.b, n)
      [] f.kind = "negatedSelector" -> negatedSelector(f.a, n)
      [] f.kind = "func" -> Val(n \in f.on)
      [] f.kind = "any" -> Val(TRUE)
      [] f.kind = "nil" -> Panic

---------------------------------------------------------------------------
(* Inputs: the nodes and selectors the predicates are applied to. *)

\* "a", "A", "ab", "aB"
Keys == {<<97>>, <<65>>, <<97, 98>>, <<97, 66>>}

\* "a", "ab": keys and tag names as the HTML parser stores them
LowerKeys == {<<97>>, <<97, 98>>}

\* every string over alphabet of at most maxLen bytes
Str(alphabet, maxLen) == UNION {[1..k -> alphabet] : k \in 0..maxLen}

\* every sequence over S of at most maxLen elements
SeqUpTo(S, maxLen) == UNION {[1..k -> S] : k \in 0..maxLen}

\* 'a', 'b', '-', ' '
ValueBytes == {97, 98, Hyphen, 32}

\* "a", "A" and, for the selector, ""
CaseValues == {<<97>>, <<65>>}
CaseSelValues == {<<>>, <<97>>, <<65>>}

Coefs == (0 - MaxCoef)..MaxCoef

NewNode(parent, child, type, data, attr) ==
    [Parent |-> parent, Child |-> child, Type |-> type, Data |-> data, Attr |-> attr]

\* node 0 with the children 1..c in this order, and node c+1 whose Parent is
\* node 0 although node 0 does not list it
Siblings(c) ==
    [k \in 0..(c + 1) |->
        IF k = 0
        THEN NewNode(NilNode, [j \in 1..c |-> j], ElementNode, <<97>>, <<>>)
        ELSE NewNode(0, <<>>, ElementNode, <<97>>, <<>>)]

\* node 0 with the attributes parentAttr and its only child, node 1
ParentAndChild(parentAttr, type, data, attr) ==
    [k \in 0..1 |->
        IF k = 0
        THEN NewNode(NilNode, <<1>>, ElementNode, <<97>>, parentAttr)
        ELSE NewNode(0, <<>>, type, data, attr)]

KeyValueKinds ==
    {"attributeEqualsSelector", "attributeIncludesSelector",
     "attributeDashmatchSelector", "attributePrefixSelector",
     "attributeSuffixSelector", "attributeSubstringSelector"}

AttrKinds == KeyValueKinds \cup {"attributeExistsSelector"}

Nth(a, b, last) == [kind |-> "nthChildSelector", a |-> a, b |-> b, last |-> last]

\* the selectors negation and intersection are built from
BaseSelectors ==
    {Nth(a, 1, last) : a \in {0, 2}, last \in BOOLEAN}
    \cup {[kind |-> "typeSelector", tag |-> <<97>>],
          [kind |-> "attributeDashmatchSelector", key |-> <<65>>, val |-> <<97>>]}

Idle ==
    /\ stack = <<>>
    /\ result = <<>>
    /\ evals = <<>>
    /\ sel = <<>>
    /\ p = [i |-> 0, compiled |-> Nil, err |-> Nil]
    /\ out = [sel |-> Nil, err |-> Nil]

\* nth-child formulas on a node among c siblings, also on a node without a
\* parent (node 0) and on one its parent does not list (node c+1)
InitNth ==
    \E c \in 0..MaxChildren, a \in Coefs, b \in Coefs, last \in BOOLEAN :
        /\ tree = Siblings(c)
        /\ node \in 0..(c + 1)
        /\ s = Nth(a, b, last)

\* includes and dashmatch on one attribute "a" with every short value
InitValues ==
    \E aVal \in Str(ValueBytes, MaxValLen), val \in Str(ValueBytes, MaxSelLen),
       kind \in {"attributeIncludesSelector", "attributeDashmatchSelector"} :
        /\ tree = ParentAndChild(<<>>, ElementNode, <<97>>,
                                 <<[Key |-> <<97>>, Val |-> aVal]>>)
        /\ node = 1
        /\ s = [kind |-> kind, key |-> <<97>>, val |-> val]

\* every attribute predicate on every short attribute list, keys and values
\* in both cases, under a parent that has the attributes "a" and "ab"
InitKeys ==
    \E attr \in SeqUpTo([Key : Keys, Val : CaseValues], MaxAttrs),
       key \in Keys, val \in CaseSelValues, kind \in AttrKinds :
        /\ tree = ParentAndChild(<<[Key |-> <<97>>, Val |-> <<97>>],
                                   [Key |-> <<97, 98>>, Val |-> <<97>>]>>,
                                 ElementNode, <<97>>, attr)
        /\ node = 1
        /\ s = IF kind = "attributeExistsSelector"
               THEN [kind |-> kind, key |-> key]
               ELSE [kind |-> kind, key |-> key, val |-> val]

InitType ==
    \E type \in {ElementNode, TextNode}, data \in LowerKeys, tag \in Keys :
        /\ tree = ParentAndChild(<<>>, type, data, <<>>)
        /\ node = 1
        /\ s = [kind |-> "typeSelector", tag |-> tag]

InitCompound ==
    \E x \in BaseSelectors, y \in BaseSelectors :
        /\ tree = [Siblings(2) EXCEPT ![1].Attr = <<[Key |-> <<97>>, Val |-> <<97, 98>>]>>,
                                      ![2].Attr = <<[Key |-> <<97>>, Val |-> <<97, Hyphen>>]>>]
        /\ node \in 0..3
        /\ s \in {[kind |-> "negatedSelector", a |-> x],
                  [kind |-> "intersectionSelector", a |-> x, b |-> y]}

InitMatch ==
    /\ InitNth \/ InitValues \/ InitKeys \/ InitType \/ InitCompound
    /\ ret = Val(FALSE)
    /\ pc = "call"
    /\ Idle

---------------------------------------------------------------------------
(* s(node): one action per constructor, the call of the closure it built. *)

Returns(r) ==
    /\ ret' = r
    /\ pc' = IF r.panic THEN "panic" ELSE "return"
    /\ UNCHANGED <<tree, s, node, stack, result, evals, sel, p, out>>

CallTypeSelector ==
    /\ pc = "call" /\ s.kind = "typeSelector"
    /\ Returns(typeSelector(s.tag, node))

CallAttributeExists ==
    /\ pc = "call" /\ s.kind = "attributeExistsSelector"
    /\ Returns(attributeExistsSelector(s.key, node))

CallAttributeEquals ==
    /\ pc = "call" /\ s.kind = "attributeEqualsSelector"
    /\ Returns(attributeEqualsSelector(s.key, s.val, node))

CallAttributeIncludes ==
    /\ pc = "call" /\ s.kind = "attributeIncludesSelector"
    /\ Returns(attributeIncludesSelector(s.key, s.val, node))

CallAttributeDashmatch ==
    /\ pc = "call" /\ s.kind = "attributeDashmatchSelector"
    /\ Returns(attributeDashmatchSelector(s.key, s.val, node))

CallAttributePrefix ==
    /\ pc = "call" /\ s.kind = "attributePrefixSelector"
    /\ Returns(attributePrefixSelector(s.key, s.val, node))

CallAttributeSuffix ==
    /\ pc = "call" /\ s.kind = "attributeSuffixSelector"
    /\ Returns(attributeSuffixSelector(s.key, s.val, node))

CallAttributeSubstring ==
    /\ pc = "call" /\ s.kind = "attributeSubstringSelector"
    /\ Returns(attributeSubstringSelector(s.key, s.val, node))

CallNthChild ==
    /\ pc = "call" /\ s.kind = "nthChildSelector"
    /\ Returns(nthChildSelector(s.a, s.b, s.last, node))

CallNegated ==
    /\ pc = "call" /\ s.kind = "negatedSelector"
    /\ Returns(negatedSelector(s.a, node))

CallIntersection ==
    /\ pc = "call" /\ s.kind = "intersectionSelector"
    /\ Returns(intersectionSelector(s.a, s.b, node))

NextMatch ==
    \/ CallTypeSelector
    \/ CallAttributeExists
    \/ CallAttributeEquals
    \/ CallAttributeIncludes
    \/ CallAttributeDashmatch
    \/ CallAttributePrefix
    \/ CallAttributeSuffix
    \/ CallAttributeSubstring
    \/ CallNthChild
    \/ CallNegated
    \/ CallIntersection

SpecMatch == InitMatch /\ [][NextMatch]_vars

---------------------------------------------------------------------------
(* MatchAll: the recursive walk, one action per step.  A frame of the call *)
(* stack holds the node n of the call, the loop position i over n.Child    *)
(* and the call's named result.                                            *)

\* the elements of a set of integers in ascending order
Ascending(S) ==
    CHOOSE q \in [1..Cardinality(S) -> S] :
        \A i, j \in 1..Cardinality(S) : i < j => q[i] < q[j]

Reverse(q) == [i \in 1..Len(q) |-> q[Len(q) + 1 - i]]

\* the tree on the nodes 1..k in which par[i] is the parent of node i; the
\* children of a node are in ascending order, or in descending order
TreeOf(k, par, descending) ==
    [m \in 1..k |->
        LET kids == Ascending({i \in 2..k : par[i] = m})
        IN  NewNode(IF m = 1 THEN NilNode ELSE par[m],
                    IF descending THEN Reverse(kids) ELSE kids,
                    ElementNode, <<97>>, <<>>)]

ParentMaps(k) == {par \in [2..k -> 1..k] : \A i \in 2..k : par[i] < i}

\* a Go predicate, true exactly on the nodes of on
Func(on) == [kind |-> "func", on |-> on]

InitWalk ==
    /\ \E k \in 1..MaxNodes :
         /\ \E par \in ParentMaps(k), descending \in BOOLEAN :
                tree = TreeOf(k, par, descending)
         /\ s \in {Func(on) : on \in SUBSET (1..k)}
                  \cup {Nth(2, 1, FALSE), Nth(0 - 1, 2, TRUE)}
         /\ evals = [m \in 1..k |-> 0]
    /\ node = 1
    /\ stack = <<[n |-> 1, i |-> 0, result |-> <<>>]>>
    /\ result = <<>>
    /\ ret = Val(FALSE)
    /\ sel = <<>>
    /\ p = [i |-> 0, compiled |-> Nil, err |-> Nil]
    /\ out = [sel |-> Nil, err |-> Nil]
    /\ pc = "test"

Top == stack[Len(stack)]

Caller == stack[Len(stack) - 1]

AppendIfMatch_always(res, matched, n) == Append(res, n)

\* if s(n) { result = append(result, n) }
AppendIfMatch(res, matched, n) == IF matched THEN Append(res, n) ELSE res

AppendAll_before(res, sub) == sub \o res

\* result = append(result, s.MatchAll(child)...)
AppendAll(res, sub) == res \o sub

\* the call s(n) at the head of MatchAll
MatchAllTest ==
    /\ pc = "test"
    /\ LET r == Call(s, Top.n)
       IN  /\ evals' = [evals EXCEPT ![Top.n] = @ + 1]
           /\ ret' = r
           /\ IF r.panic
              THEN pc' = "panic" /\ stack' = stack
              ELSE /\ pc' = "loop"
                   /\ stack' = [stack EXCEPT ![Len(stack)].result =
                                    AppendIfMatch(@, r.v, Top.n)]
    /\ UNCHANGED <<tree, s, node, result, sel, p, out>>

\* the loop body's call s.MatchAll(child)
MatchAllRecurse ==
    /\ pc = "loop"
    /\ Top.i < Len(tree[Top.n].Child)
    /\ stack' = Append(stack, [n |-> tree[Top.n].Child[Top.i + 1], i |-> 0,
                               result |-> <<>>])
    /\ pc' = "test"
    /\ UNCHANGED <<tree, s, node, ret, result, evals, sel, p, out>>

\* the return of a recursive call: the caller appends what it returned
MatchAllReturn ==
    /\ pc = "loop"
    /\ Top.i = Len(tree[Top.n].Child)
    /\ Len(stack) > 1
    /\ stack' = [SubSeq(stack, 1, Len(stack) - 1) EXCEPT
                    ![Len(stack) - 1] =
                        [Caller EXCEPT !.result = AppendAll(@, Top.result),
                                       !.i = @ + 1]]
    /\ pc' = "loop"
    /\ UNCHANGED <<tree, s, node, ret, result, evals, sel, p, out>>

\* the return of the outermost call
MatchAllDone ==
    /\ pc = "loop"
    /\ Top.i = Len(tree[Top.n].Child)
    /\ Len(stack) = 1
    /\ result' = Top.result
    /\ stack' = <<>>
    /\ pc' = "done"
    /\ UNCHANGED <<tree, s, node, ret, evals, sel, p, out>>

NextWalk == MatchAllTest \/ MatchAllRecurse \/ MatchAllReturn \/ MatchAllDone

SpecWalk == InitWalk /\ [][NextWalk]_vars

---------------------------------------------------------------------------
(* Compile.  parseSimpleSelectorSequence is the grammar                    *)
(*     simple_selector_sequence := (type_selector | '*')? qualifier*       *)
(* restricted to the qualifiers '#' ident and '.' ident, over texts of the *)
(* bytes 'a', '*', '#', '.' and ' '.                                       *)

\* 'a', '*', '#', '.', ' '
TextBytes == {97, 42, 35, 46, 32}

\* the bytes of an identifier
IdentBytes == {97}

\* "id" and "class"
IdKey == <<105, 100>>
ClassKey == <<99, 108, 97, 115, 115>>

\* the offset after the identifier that starts at offset i of text (i itself
\* when none starts there)
RECURSIVE IdentEnd(_, _)
IdentEnd(text, i) ==
    IF i < Len(text) /\ text[i + 1] \in IdentBytes
    THEN IdentEnd(text, i + 1)
    ELSE i

\* the predicate matched so far and one more: their intersection
Qualify(compiled, ns) ==
    IF compiled = Nil THEN ns
    ELSE [kind |-> "intersectionSelector", a |-> compiled, b |-> ns]

InitCompile ==
    /\ sel \in Str(TextBytes, MaxText)
    /\ p = [i |-> 0, compiled |-> Nil, err |-> Nil]
    /\ out = [sel |-> Nil, err |-> Nil]
    /\ pc = "parse"
    /\ tree = ParentAndChild(<<>>, ElementNode, <<97>>, <<>>)
    /\ s = Nil
    /\ node = 1
    /\ ret = Val(FALSE)
    /\ stack = <<>>
    /\ result = <<>>
    /\ evals = <<>>

\* the optional leading type selector or '*'
ParseTypeSelector ==
    /\ pc = "parse"
    /\ LET e == IdentEnd(sel, p.i)
       IN  p' = IF p.i < Len(sel) /\ sel[p.i + 1] = 42
                THEN [p EXCEPT !.i = @ + 1]
                ELSE IF e > p.i
                     THEN [p EXCEPT !.i = e,
                                    !.compiled = [kind |-> "typeSelector",
                                                  tag |-> SubSeq(sel, p.i + 1, e)]]
                     ELSE p
    /\ pc' = "qualifier"
    /\ UNCHANGED <<tree, s, node, ret, stack, result, evals, sel, out>>

\* one qualifier: '#' ident or '.' ident; without an identifier, a syntax error
ParseQualifier ==
    /\ pc = "qualifier"
    /\ p.i < Len(sel)
    /\ sel[p.i + 1] \in {35, 46}
    /\ LET e == IdentEnd(sel, p.i + 1)
           ident == SubSeq(sel, p.i + 2, e)
           ns == IF sel[p.i + 1] = 35
                 THEN [kind |-> "attributeEqualsSelector", key |-> IdKey, val |-> ident]
                 ELSE [kind |-> "attributeIncludesSelector", key |-> ClassKey, val |-> ident]
       IN  IF e = p.i + 1
           THEN /\ p' = [p EXCEPT !.compiled = Nil,
                                  !.err = [kind |-> "syntax", text |-> sel, left |-> 0]]
                /\ pc' = "parsed"
           ELSE /\ p' = [p EXCEPT !.i = e, !.compiled = Qualify(@, ns)]
                /\ pc' = "qualifier"
    /\ UNCHANGED <<tree, s, node, ret, stack, result, evals, sel, out>>

\* the end of the sequence: the end of the text or a byte that starts no
\* qualifier; a sequence without any selector matches every node
ParseEnd ==
    /\ pc = "qualifier"
    /\ ~(p.i < Len(sel) /\ sel[p.i + 1] \in {35, 46})
    /\ p' = IF p.compiled = Nil THEN [p EXCEPT !.compiled = [kind |-> "any"]] ELSE p
    /\ pc' = "parsed"
    /\ UNCHANGED <<tree, s, node, ret, stack, result, evals, sel, out>>

Compile_prefix(text, cursor) ==
    IF cursor.err # Nil THEN [sel |-> Nil, err |-> cursor.err]
    ELSE [sel |-> cursor.compiled, err |-> Nil]

\* what Compile returns once the parser has returned (compiled, err) and
\* left the cursor at p.i
Compile(text, cursor) ==
    IF cursor.err # Nil THEN [sel |-> Nil, err |-> cursor.err]
    ELSE IF cursor.i < Len(text)
         THEN [sel |-> Nil,
               err |-> [kind |-> "left over", text |-> text,
                        left |-> Len(text) - cursor.i]]
         ELSE [sel |-> cursor.compiled, err |-> Nil]

CompileReturn ==
    /\ pc = "parsed"
    /\ out' = Compile(sel, p)
    /\ pc' = "done"
    /\ UNCHANGED <<tree, s, node, ret, stack, result, evals, sel, p>>

NextCompile == ParseTypeSelector \/ ParseQualifier \/ ParseEnd \/ CompileReturn

SpecCompile == InitCompile /\ [][NextCompile]_vars

---------------------------------------------------------------------------
(* Document order, defined from the tree alone. *)

\* the child positions on the way from the root to n
RECURSIVE PathTo(_)
PathTo(n) ==
    IF tree[n].Parent = NilNode THEN <<>>
    ELSE Append(PathTo(tree[n].Parent),
                ChildIndex(tree[tree[n].Parent].Child, n))

\* path x is a proper prefix of path y, or is to the left of it where they part
PathBefore(x, y) ==
    \E k \in 0..Len(x) :
        /\ k <= Len(y)
        /\ SubSeq(x, 1, k) = SubSeq(y, 1, k)
        /\ \/ k = Len(x) /\ k < Len(y)
           \/ k < Len(x) /\ k < Len(y) /\ x[k + 1] < y[k + 1]

\* node x comes before node y in the pre-order listing of the document
DocBefore(x, y) == PathBefore(PathTo(x), PathTo(y))

IsAncestor(x, y) ==
    /\ Len(PathTo(x)) < Len(PathTo(y))
    /\ PathTo(x) = SubSeq(PathTo(y), 1, Len(PathTo(x)))

\* q lists nodes of the tree in strictly ascending document order
InDocOrder(q) ==
    /\ \A i \in 1..Len(q) : q[i] \in DOMAIN tree
    /\ \A i, j \in 1..Len(q) : i < j => DocBefore(q[i], q[j])

\* C1: the list MatchAll returns, and the list of every call of the walk at
\* every step, is a subsequence of the document pre-order listing: nodes of
\* the tree in strictly ascending document order, so a matched node comes
\* before its matched descendants and matches under an earlier sibling before
\* matches under a later one.
C1_PreOrderSubsequence ==
    /\ InDocOrder(result)
    /\ \A f \in 1..Len(stack) : InDocOrder(stack[f].result)

\* C1 witness: a finished walk that returned an ancestor with a descendant and
\* nodes under two siblings, in an order that is not the order of the node ids
C1_Witness ==
    /\ pc = "done"
    /\ Len(result) >= 3
    /\ \E i, j \in 1..Len(result) : i < j /\ IsAncestor(result[i], result[j])
    /\ \E i, j \in 1..Len(result) :
          /\ i < j /\ result[i] > result[j]
          /\ ~IsAncestor(result[i], result[j])

\* C2: a finished walk has called s exactly once on every node of the tree (and
\* no walk ever calls it twice on a node), and returns exactly the nodes s is
\* true on, each once, whether or not their ancestors matched.
C2_EveryNodeOnce ==
    /\ \A m \in DOMAIN evals : evals[m] <= 1
    /\ pc = "done" =>
          /\ \A m \in DOMAIN tree : evals[m] = 1
          /\ {result[i] : i \in 1..Len(result)}
                = {m \in DOMAIN tree : Call(s, m).v}
          /\ Len(result) = Cardinality({m \in DOMAIN tree : Call(s, m).v})

\* C2 witness: a finished walk over a tree of depth two in which the root did
\* not match, a child of the root matched and so did a child of that child
C2_Witness ==
    /\ pc = "done"
    /\ ~Call(s, 1).v
    /\ \E i, j \in 1..Len(result) :
          /\ i < j
          /\ tree[result[i]].Parent = 1
          /\ tree[result[j]].Parent = result[i]

---------------------------------------------------------------------------
(* nth-child *)

\* node is one of the children its parent lists
Placed ==
    /\ tree[node].Parent # NilNode
    /\ \E k \in 1..Len(tree[tree[node].Parent].Child) :
          tree[tree[node].Parent].Child[k] = node

\* the number of children of node's parent, and node's 1-based place among them
SiblingCount == Len(tree[tree[node].Parent].Child)
Place == CHOOSE k \in 1..SiblingCount : tree[tree[node].Parent].Child[k] = node

\* every n that can solve a*n + b = p for a place p and coefficients in range
Multipliers == 0..(MaxChildren + MaxCoef)
SignedMultipliers == (0 - (MaxChildren + MaxCoef))..(MaxChildren + MaxCoef)

\* the formulas of the tests with the places they select: from the front among
\* three and among four children, from the back among four
ListedCases ==
    {[a |-> 2, b |-> 1, last |-> FALSE, c |-> 3, places |-> {1, 3}],
     [a |-> 2, b |-> 0, last |-> FALSE, c |-> 3, places |-> {2}],
     [a |-> 0 - 1, b |-> 2, last |-> FALSE, c |-> 3, places |-> {1, 2}],
     [a |-> 3, b |-> 1, last |-> FALSE, c |-> 3, places |-> {1}],
     [a |-> 3, b |-> 1, last |-> FALSE, c |-> 4, places |-> {1, 4}],
     [a |-> 2, b |-> 1, last |-> TRUE, c |-> 4, places |-> {2, 4}],
     [a |-> 2, b |-> 0, last |-> TRUE, c |-> 4, places |-> {1, 3}],
     [a |-> 0 - 1, b |-> 2, last |-> TRUE, c |-> 4, places |-> {3, 4}],
     [a |-> 3, b |-> 1, last |-> TRUE, c |-> 4, places |-> {1, 4}]}

\* C3: on the k-th of c children, nthChildSelector(a, b, last) returns true
\* iff a*n + b = p for some integer n >= 0, with p = k, or p = c - k + 1 when
\* last; and the formulas of the tests select the places the tests list.
C3_NthChildFormula ==
    (pc = "return" /\ s.kind = "nthChildSelector" /\ Placed) =>
        LET pos == IF s.last THEN SiblingCount - Place + 1 ELSE Place
        IN  /\ ret.v = (\E n \in Multipliers : s.a * n + s.b = pos)
            /\ s.a = 0 => ret.v = (pos = s.b)
            /\ \A t \in ListedCases :
                  (s.a = t.a /\ s.b = t.b /\ s.last = t.last /\ SiblingCount = t.c)
                      => ret.v = (Place \in t.places)

\* C3 witness: :nth-last-child(-n+2) has matched the third of four children
C3_Witness ==
    /\ pc = "return"
    /\ s = Nth(0 - 1, 2, TRUE)
    /\ Placed
    /\ SiblingCount = 4
    /\ Place = 3
    /\ ret.v

\* C4 as claimed: from the front, the predicate returns true at place p iff
\* p = a*n + b for some integer n of either sign (p = b when a = 0).
C4_AnyInteger ==
    (pc = "return" /\ s.kind = "nthChildSelector" /\ ~s.last /\ Placed) =>
        ret.v = IF s.a = 0 THEN Place = s.b
                ELSE Place \in {s.a * n + s.b : n \in SignedMultipliers}

\* C4 amended: from the front, the predicate returns true at place p iff
\* p = a*n + b for some integer n >= 0 (p = b when a = 0).
C4_NonNegativeInteger ==
    (pc = "return" /\ s.kind = "nthChildSelector" /\ ~s.last /\ Placed) =>
        ret.v = IF s.a = 0 THEN Place = s.b
                ELSE Place \in {s.a * n + s.b : n \in Multipliers}

\* C4 witness: :nth-child(n+2) has rejected the first child, the place that
\* only n = -1 gives
C4_Witness ==
    /\ pc = "return"
    /\ s = Nth(1, 2, FALSE)
    /\ Placed
    /\ Place = 1
    /\ ~ret.v

---------------------------------------------------------------------------
(* attributes *)

\* str with its ASCII capital letters replaced by the small ones
LowerCase(str) ==
    [k \in 1..Len(str) |-> IF str[k] \in 65..90 THEN str[k] + 32 ELSE str[k]]

\* the attributes of node whose key is key, by the given reading of "is"
SameKeyIgnoringCase(key) ==
    SelectSeq(tree[node].Attr, LAMBDA a : LowerCase(a.Key) = LowerCase(key))
SameKeyAsFolded(key) ==
    SelectSeq(tree[node].Attr, LAMBDA a : a.Key = LowerCase(key))

\* the whitespace-separated tokens of str: its maximal runs of other bytes
Tokens(str) ==
    {SubSeq(str, ij[1], ij[2]) : ij \in
        {ij \in (1..Len(str)) \X (1..Len(str)) :
            /\ ij[1] <= ij[2]
            /\ \A k \in ij[1]..ij[2] : str[k] \notin Whitespace
            /\ ij[1] = 1 \/ str[ij[1] - 1] \in Whitespace
            /\ ij[2] = Len(str) \/ str[ij[2] + 1] \in Whitespace}}

\* C6: on a node with one attribute key, attributeIncludesSelector(key, v)
\* returns true iff one of the whitespace-separated tokens of the attribute's
\* value is v, for every value and every v, the empty ones included.
C6_IncludesToken ==
    (pc = "return" /\ s.kind = "attributeIncludesSelector"
        /\ Len(SameKeyIgnoringCase(s.key)) = 1
        /\ Len(SameKeyAsFolded(s.key)) = 1) =>
        ret.v = (s.val \in Tokens(SameKeyAsFolded(s.key)[1].Val))

\* C7: each of the seven attribute predicates returns false, and returns, on a
\* node whose own attribute list has no pair with the key (in whatever case),
\* whatever v is and whatever attributes its parent has.
C7_AbsentKeyNeverMatches ==
    (pc # "call" /\ s.kind \in AttrKinds /\ SameKeyIgnoringCase(s.key) = <<>>) =>
        ret = Val(FALSE)

\* C7 witness: attributeSubstringSelector(key, "") has returned false on a node
\* that has another attribute and whose parent has the attribute key
C7_Witness ==
    /\ pc = "return"
    /\ s.kind = "attributeSubstringSelector"
    /\ s.val = <<>>
    /\ SameKeyIgnoringCase(s.key) = <<>>
    /\ tree[node].Attr # <<>>
    /\ \E j \in 1..Len(tree[tree[node].Parent].Attr) :
          tree[tree[node].Parent].Attr[j].Key = LowerCase(s.key)
    /\ ret = Val(FALSE)

\* what a predicate of the given kind makes of one attribute value: whether it
\* decides the match there, and how
ValueTest(kind, aVal, val) ==
    CASE kind = "attributeExistsSelector" -> [returned |-> TRUE, v |-> TRUE]
      [] kind = "attributeEqualsSelector" -> [returned |-> TRUE, v |-> aVal = val]
      [] kind = "attributeIncludesSelector" ->
            [returned |-> includesScan(aVal, val).returned,
             v |-> includesScan(aVal, val).v]
      [] kind = "attributeDashmatchSelector" ->
            [returned |-> TRUE,
             v |-> aVal = val \/ HasPrefix(aVal, Append(val, Hyphen))]
      [] kind = "attributePrefixSelector" -> [returned |-> TRUE, v |-> HasPrefix(aVal, val)]
      [] kind = "attributeSuffixSelector" -> [returned |-> TRUE, v |-> HasSuffix(aVal, val)]
      [] kind = "attributeSubstringSelector" -> [returned |-> TRUE, v |-> Contains(aVal, val)]

\* the match decided by the first of the attributes attrs that decides it
RECURSIVE FirstDecides(_, _, _)
FirstDecides(kind, attrs, val) ==
    IF attrs = <<>> THEN FALSE
    ELSE LET t == ValueTest(kind, Head(attrs).Val, val)
         IN  IF t.returned THEN t.v ELSE FirstDecides(kind, Tail(attrs), val)

SelVal == IF s.kind = "attributeExistsSelector" THEN <<>> ELSE s.val

\* an equals predicate that returned true found the selector value byte for byte
ValuesByteExact ==
    (s.kind = "attributeEqualsSelector" /\ ret.v) =>
        \E j \in 1..Len(tree[node].Attr) : tree[node].Attr[j].Val = s.val

\* C8 as claimed: every attribute predicate looks at the attributes whose key
\* is the selector key up to the case of ASCII letters, on either side, and
\* compares values byte for byte.
C8_KeysIgnoreCaseBothSides ==
    (pc = "return" /\ s.kind \in AttrKinds) =>
        /\ ret.v = FirstDecides(s.kind, SameKeyIgnoringCase(s.key), SelVal)
        /\ ValuesByteExact

\* C8 amended: every attribute predicate looks at the attributes whose key is,
\* byte for byte, the selector key with its capitals made small (so a node key
\* with a capital letter is matched by no selector key), and compares values
\* byte for byte.
C8_SelectorKeyFolded ==
    (pc = "return" /\ s.kind \in AttrKinds) =>
        /\ ret.v = FirstDecides(s.kind, SameKeyAsFolded(s.key), SelVal)
        /\ ValuesByteExact

\* C8 witness: an equals predicate built with the key "aB" has matched the
\* attribute ab="A" of a node, and would not match with the value "a"
C8_Witness ==
    /\ pc = "return"
    /\ s.kind = "attributeEqualsSelector"
    /\ s.key = <<97, 66>>
    /\ s.val = <<65>>
    /\ tree[node].Attr = <<[Key |-> <<97, 98>>, Val |-> <<65>>]>>
    /\ ret.v
    /\ ~attributeEqualsSelector(s.key, <<97>>, node).v

\* C9: on a node that has the attribute key, attributeDashmatchSelector(key, v)
\* returns true iff the value of the (first) attribute key is v or begins with
\* v followed by '-'; a value no longer than v matches only when it is v.
C9_Dashmatch ==
    (pc = "return" /\ s.kind = "attributeDashmatchSelector"
        /\ SameKeyAsFolded(s.key) # <<>>) =>
        LET aVal == SameKeyAsFolded(s.key)[1].Val
        IN  /\ ret.v = \/ aVal = s.val
                       \/ \E rest \in Str(ValueBytes, MaxValLen) :
                             aVal = s.val \o <<Hyphen>> \o rest
            /\ Len(aVal) <= Len(s.val) => ret.v = (aVal = s.val)

\* C9 witness: [a|="a"] has matched the value "a-b"
C9_Witness ==
    /\ pc = "return"
    /\ s.kind = "attributeDashmatchSelector"
    /\ s.val = <<97>>
    /\ SameKeyAsFolded(s.key) = <<[Key |-> <<97>>, Val |-> <<97, Hyphen, 98>>]>>
    /\ ret.v

\* C10: no call of a predicate panics; nthChildSelector returns false on a node
\* without a parent and on a node its parent does not list.
C10_MatchingNeverFails ==
    /\ pc # "panic"
    /\ ~ret.panic
    /\ (pc = "return" /\ s.kind = "nthChildSelector" /\ ~Placed) => ret = Val(FALSE)

\* C10 witness: a formula with a = 0 has returned on a node without a parent,
\* on a node its parent does not list ...
C10_Witness ==
    /\ pc = "return"
    /\ s.kind = "nthChildSelector"
    /\ s.a = 0
    /\ tree[node].Parent # NilNode
    /\ ~Placed
    /\ ret = Val(FALSE)

---------------------------------------------------------------------------
(* Compile *)

\* the selector text a parsed predicate stands for
RECURSIVE TextOf(_)
TextOf(f) ==
    CASE f.kind = "typeSelector" -> f.tag
      [] f.kind = "attributeEqualsSelector" -> <<35>> \o f.val
      [] f.kind = "attributeIncludesSelector" -> <<46>> \o f.val
      [] f.kind = "intersectionSelector" -> TextOf(f.a) \o TextOf(f.b)
      [] f.kind = "any" -> <<>>

\* C5: when Compile has returned, (1) if the parser failed the Selector is nil
\* and the parser's error is returned; (2) if the parser succeeded and left the
\* cursor before the end of the text, the Selector is nil and the error carries
\* the text and the number of bytes after the cursor; (3) a non-nil Selector is
\* returned only with a nil error, the cursor at the end of the text, and it
\* stands for the whole text (after an optional '*'), never for a prefix of it.
C5_NoTrailingInput ==
    pc = "done" =>
        /\ p.err # Nil => out.sel = Nil /\ out.err = p.err
        /\ (p.err = Nil /\ p.i < Len(sel)) =>
              /\ out.sel = Nil
              /\ out.err.kind = "left over"
              /\ out.err.text = sel
              /\ out.err.left = Len(sel) - p.i
              /\ out.err.left > 0
        /\ out.sel # Nil =>
              /\ out.err = Nil
              /\ p.err = Nil
              /\ p.i = Len(sel)
              /\ sel \in {TextOf(out.sel), <<42>> \o TextOf(out.sel)}
        /\ out.sel = Nil => out.err # Nil

\* C5 witness: Compile has returned for a text whose first identifier is a
\* complete selector and which goes on with two more bytes ("a a." and the
\* like): no Selector, and an error counting the bytes left over
C5_Witness ==
    /\ pc = "done"
    /\ p.err = Nil
    /\ p.compiled # Nil
    /\ p.i = 1
    /\ Len(sel) >= 3
    /\ out.sel = Nil
    /\ out.err.kind = "left over"
    /\ out.err.left = Len(sel) - 1

====
